---- MODULE Spec2Model ----
(***************************************************************************)
(* DS1338 real-time clock (rust/hw/rtc/ds1338/src/lib.rs): the register    *)
(* file DS1338Inner, the I2C slave callbacks recv / send / event and the   *)
(* reset handler, together with the host's time source.                    *)
(***************************************************************************)
EXTENDS Integers, Sequences, FiniteSets, TLC

(***************************************************************************)
(* Bounds of the exploration.                                              *)
(***************************************************************************)
\* handler calls (recv, send, event, reset) in one behaviour of Spec
MaxSteps == 3
\* seconds the host clock advances in one behaviour
MaxTicks == 1
\* handler calls in one behaviour of a master that keeps to a few registers
MaxDeep == 7
\* times a read burst goes round the 64 registers
MaxRounds == 1
\* handler calls in one behaviour of a master that sets the clock
MaxClock == 8
\* handler calls in one behaviour of a master that sets the year to 2165
MaxYear == 7

(***************************************************************************)
(* Program constants.                                                      *)
(***************************************************************************)
NVRAM_SIZE == 64
HOURS_12 == 64
HOURS_PM == 32
CTRL_OSF == 32
\* the literal 0xB3 of write_control_register
CTRL_MASK == 179

Byte == 0..255

(***************************************************************************)
(* u8 bit operations, bit by bit.                                          *)
(***************************************************************************)
Pow2(i) == CASE i = 0 -> 1 [] i = 1 -> 2 [] i = 2 -> 4 [] i = 3 -> 8
             [] i = 4 -> 16 [] i = 5 -> 32 [] i = 6 -> 64 [] OTHER -> 128

Bit(x, i) == (x \div Pow2(i)) % 2

BitAnd(x, y) ==
    Bit(x, 0) * Bit(y, 0) + 2 * (Bit(x, 1) * Bit(y, 1))
  + 4 * (Bit(x, 2) * Bit(y, 2)) + 8 * (Bit(x, 3) * Bit(y, 3))
  + 16 * (Bit(x, 4) * Bit(y, 4)) + 32 * (Bit(x, 5) * Bit(y, 5))
  + 64 * (Bit(x, 6) * Bit(y, 6)) + 128 * (Bit(x, 7) * Bit(y, 7))

OrBit(a, b) == IF a + b > 0 THEN 1 ELSE 0

BitOr(x, y) ==
    OrBit(Bit(x, 0), Bit(y, 0)) + 2 * OrBit(Bit(x, 1), Bit(y, 1))
  + 4 * OrBit(Bit(x, 2), Bit(y, 2)) + 8 * OrBit(Bit(x, 3), Bit(y, 3))
  + 16 * OrBit(Bit(x, 4), Bit(y, 4)) + 32 * OrBit(Bit(x, 5), Bit(y, 5))
  + 64 * OrBit(Bit(x, 6), Bit(y, 6)) + 128 * OrBit(Bit(x, 7), Bit(y, 7))

\* !x on a u8
BitNot(x) == 255 - x

\* `x as u8` of an i32
AsU8(x) == x % 256

(***************************************************************************)
(* to_bcd / from_bcd on u8.  The product (x / 10) * 16 passes 255 for      *)
(* x >= 160: a build with overflow checks panics there ("attempt to        *)
(* multiply with overflow"), a build without them wraps.  An outcome is    *)
(* [panic |-> the call panicked, val |-> the byte returned otherwise].     *)
(***************************************************************************)
\* checks: the build has overflow checks
to_bcd(x, checks) ==
    LET mul == (x \div 10) * 16
        sum == (mul % 256) + (x % 10)
    IN  [panic |-> checks /\ (mul > 255 \/ sum > 255), val |-> sum % 256]

\* the outcome of an expression that cannot overflow
no_panic(v) == [panic |-> FALSE, val |-> v]

\* HOURS_12 | .. and HOURS_12 | HOURS_PM | .. on the byte to_bcd returned
or_bits(m, o) == [o EXCEPT !.val = BitOr(m, o.val)]

from_bcd(x) == ((x \div 16) * 10 + (x % 16)) % 256

(***************************************************************************)
(* The time source (qemu_get_timedate, qemu_timedate_diff).  A time_t or   *)
(* an offset in seconds is held as [d |-> days, s |-> second of the day],  *)
(* day 0 being 2000-01-01, because a span of 165 years of seconds does not *)
(* fit TLC's 32-bit integers.                                              *)
(***************************************************************************)
SecsPerDay == 86400

\* days from 1970-01-01 to 2000-01-01
Days1970To2000 == 10957

TimeNorm(d, s) == [d |-> d + (s \div SecsPerDay), s |-> s % SecsPerDay]

TimeAdd(a, b) == TimeNorm(a.d + b.d, a.s + b.s)

TimeSub(a, b) == TimeNorm(a.d - b.d, a.s - b.s)

TimeZero == [d |-> 0, s |-> 0]

\* gmtime_r: the calendar breakdown of a time_t (proleptic Gregorian, UTC)
gmtime(t) ==
    LET z    == t.d + Days1970To2000 + 719468
        era  == z \div 146097
        doe  == z - era * 146097
        yoe  == (doe - (doe \div 1460) + (doe \div 36524) - (doe \div 146096)) \div 365
        doy  == doe - (365 * yoe + (yoe \div 4) - (yoe \div 100))
        mp   == (5 * doy + 2) \div 153
        dd   == doy - ((153 * mp + 2) \div 5) + 1
        m    == IF mp < 10 THEN mp + 3 ELSE mp - 9
        y    == yoe + era * 400 + (IF m <= 2 THEN 1 ELSE 0)
    IN  [tm_sec  |-> t.s % 60,
         tm_min  |-> (t.s \div 60) % 60,
         tm_hour |-> t.s \div 3600,
         tm_wday |-> (t.d + Days1970To2000 + 4) % 7,
         tm_mday |-> dd,
         tm_mon  |-> m - 1,
         tm_year |-> y - 1900]

\* mktimegm: seconds of a breakdown whose fields may be out of range
mktimegm(tm) ==
    LET m0 == tm.tm_mon + 1
        y0 == tm.tm_year + 1900
        m  == IF m0 < 3 THEN m0 + 12 ELSE m0
        y  == IF m0 < 3 THEN y0 - 1 ELSE y0
        days == tm.tm_mday + ((153 * m - 457) \div 5) + 365 * y + (y \div 4)
                - (y \div 100) + (y \div 400) - 719469
    IN  TimeNorm(days - Days1970To2000,
                 3600 * tm.tm_hour + 60 * tm.tm_min + tm.tm_sec)

\* qemu_get_timedate(&tm, offset) read when the host clock shows h
qemu_get_timedate(h, offset) == gmtime(TimeAdd(h, offset))

\* qemu_timedate_diff(&tm) read when the host clock shows h
qemu_timedate_diff(tm, h) == TimeSub(mktimegm(tm), h)

\* the host clock when the device is created: 2026-10-31 23:59:59 UTC
HostStart == [d |-> 9800, s |-> 86399]

VARIABLES
    inner,   \* the DS1338Inner behind the BqlRefCell
    host,    \* the host clock (a time_t)
    hist,    \* the handler calls so far: arguments, what each saw and returned
    borrow,  \* the BqlRefCell's count of live mutable borrows (RefMut guards)
    build    \* what the calls so far have shown of the build's overflow checks

vars == <<inner, host, hist, borrow, build>>

(***************************************************************************)
(* The build.  Overflow checks are a choice of the build (on in a debug    *)
(* profile, off in a release profile) that no call shows until a to_bcd    *)
(* overflows: "unobserved" until then, "wrapping" once an overflow has     *)
(* wrapped, "checked" once one has panicked.  A panic inside a callback    *)
(* that C calls ends the process, so no handler runs after it.             *)
(***************************************************************************)
Aborted == build = "checked"

\* the outcomes a call can have, given its outcome with overflow checks and
\* its outcome without: one where nothing overflows, that of the build
\* where one has been observed, either of the two otherwise
Outcomes(checked, wrapping) ==
    IF ~checked.panic THEN {checked}
    ELSE IF build = "unobserved" THEN {checked, wrapping}
    ELSE {wrapping}

\* what is known of the build after the call had the outcome o
Shown(checked, o) ==
    IF checked.panic THEN (IF o.panic THEN "checked" ELSE "wrapping") ELSE build

(***************************************************************************)
(* BqlRefCell<DS1338Inner>: borrow_mut hands out a guard for exclusive     *)
(* access (and panics when one is live, which a count past 1 stands for);  *)
(* the guard's scope ends, and the borrow with it, where the handler       *)
(* returns.                                                                *)
(***************************************************************************)
borrow_mut(b) == b + 1

drop_guard(b) == b - 1

\* the borrow count a panicking handler leaves: the guard is dropped when the
\* panic unwinds to the callback's boundary, and is not when it aborts at once
panic_borrow(b) == {borrow_mut(b), drop_guard(borrow_mut(b))}

(***************************************************************************)
(* DS1338Inner                                                             *)
(***************************************************************************)
Default ==
    [offset      |-> TimeZero,
     wday_offset |-> 0,
     nvram       |-> [a \in 0..(NVRAM_SIZE - 1) |-> 0],
     ptr         |-> 0,
     addr_byte   |-> FALSE]

hours_reg(s, now, checks) ==
    IF BitAnd(s.nvram[2], HOURS_12) # 0
    THEN LET tmp == IF now.tm_hour % 12 = 0 THEN now.tm_hour + 12 ELSE now.tm_hour
         IN  IF tmp <= 12
             THEN or_bits(HOURS_12, to_bcd(AsU8(tmp), checks))
             ELSE or_bits(BitOr(HOURS_12, HOURS_PM),
                          to_bcd(AsU8(tmp - 12), checks))
    ELSE to_bcd(AsU8(now.tm_hour), checks)

wday_reg(s, now) == AsU8(((now.tm_wday + s.wday_offset) % 7) + 1)

\* the seven assignments of capture_current_time, in the order of the code:
\* what each right-hand side yields
time_regs(s, now, checks) ==
    [a \in 0..6 |->
        CASE a = 0 -> to_bcd(AsU8(now.tm_sec), checks)
          [] a = 1 -> to_bcd(AsU8(now.tm_min), checks)
          [] a = 2 -> hours_reg(s, now, checks)
          [] a = 3 -> no_panic(wday_reg(s, now))
          [] a = 4 -> to_bcd(AsU8(now.tm_mday), checks)
          [] a = 5 -> to_bcd(AsU8(now.tm_mon + 1), checks)
          [] OTHER -> to_bcd(AsU8(now.tm_year - 100), checks)]

\* the assignments that run: all seven, or those before the first panic
stores_done(regs) == {a \in 0..6 : \A b \in 0..a : ~regs[b].panic}

\* capture_current_time storing the year one register too far, over the
\* control register
capture_current_time_shifted(s, h, checks) ==
    LET now  == qemu_get_timedate(h, s.offset)
        regs == time_regs(s, now, checks)
        done == stores_done(regs)
    IN  [st |-> [s EXCEPT !.nvram =
                    [a \in 0..(NVRAM_SIZE - 1) |->
                        IF a \in done \ {6} THEN regs[a].val
                        ELSE IF a = 7 /\ 6 \in done THEN regs[6].val
                        ELSE s.nvram[a]]],
         panic |-> done # 0..6]

\* the outcome of capture_current_time: st is the register file it leaves,
\* panic says that a to_bcd panicked and the call did not return; the
\* assignments before the panic have been made
capture_current_time(s, h, checks) ==
    LET now  == qemu_get_timedate(h, s.offset)
        regs == time_regs(s, now, checks)
        done == stores_done(regs)
    IN  [st |-> [s EXCEPT !.nvram =
                    [a \in 0..(NVRAM_SIZE - 1) |->
                        IF a \in done THEN regs[a].val ELSE s.nvram[a]]],
         panic |-> done # 0..6]

\* a step that ran to its end and left the register file t
returned(t) == [st |-> t, panic |-> FALSE]

\* inc_regptr capturing the time on every advance
inc_regptr_capturing(s, h, checks) ==
    capture_current_time([s EXCEPT !.ptr = BitAnd(s.ptr + 1, NVRAM_SIZE - 1)],
                         h, checks)

\* inc_regptr without the wrap to 0
inc_regptr_nowrap(s, h, checks) == returned([s EXCEPT !.ptr = s.ptr + 1])

inc_regptr(s, h, checks) ==
    LET t == [s EXCEPT !.ptr = BitAnd(s.ptr + 1, NVRAM_SIZE - 1)]
    IN  IF t.ptr = 0 THEN capture_current_time(t, h, checks) ELSE returned(t)

get_reg(s) == s.nvram[s.ptr]

set_ptr(s, data) == [s EXCEPT !.ptr = BitAnd(data, NVRAM_SIZE - 1)]

\* hours_of without the step from 12 back to 0 (12 AM) and from 24 to 12
hours_of_unfolded(data) ==
    IF BitAnd(data, HOURS_12) # 0
    THEN LET t0 == from_bcd(BitAnd(data, HOURS_PM - 1))
         IN  IF BitAnd(data, HOURS_PM) # 0 THEN t0 + 12 ELSE t0
    ELSE from_bcd(BitAnd(data, HOURS_12 - 1))

hours_of(data) ==
    IF BitAnd(data, HOURS_12) # 0
    THEN LET t0 == from_bcd(BitAnd(data, HOURS_PM - 1))
             t1 == IF BitAnd(data, HOURS_PM) # 0 THEN t0 + 12 ELSE t0
         IN  IF t1 % 12 = 0 THEN t1 - 12 ELSE t1
    ELSE from_bcd(BitAnd(data, HOURS_12 - 1))

\* wday_offset_of taking the register value for the weekday index
wday_offset_of_raw(data, now) ==
    AsU8((BitAnd(data, 7) - now.tm_wday + 7) % 7)

wday_offset_of(data, now) ==
    LET user_wday == BitAnd(data, 7) - 1
    IN  AsU8((user_wday - now.tm_wday + 7) % 7)

\* write_time_register keeping the 12-hour bit of an hours byte in storage[2]
write_time_register_keeps_mode(s, data, h1, h2) ==
    LET now == qemu_get_timedate(h1, s.offset)
        set == CASE s.ptr = 0 -> [now EXCEPT !.tm_sec = from_bcd(BitAnd(data, 127))]
                 [] s.ptr = 1 -> [now EXCEPT !.tm_min = from_bcd(BitAnd(data, 127))]
                 [] s.ptr = 2 -> [now EXCEPT !.tm_hour = hours_of(data)]
                 [] s.ptr = 4 -> [now EXCEPT !.tm_mday = from_bcd(BitAnd(data, 63))]
                 [] s.ptr = 5 -> [now EXCEPT !.tm_mon = from_bcd(BitAnd(data, 31)) - 1]
                 [] s.ptr = 6 -> [now EXCEPT !.tm_year = from_bcd(data) + 100]
                 [] OTHER -> now
        wdo == IF s.ptr = 3 THEN wday_offset_of(data, now) ELSE s.wday_offset
        mode == IF s.ptr = 2 THEN BitAnd(data, HOURS_12) ELSE s.nvram[2]
    IN  [s EXCEPT !.wday_offset = wdo, !.offset = qemu_timedate_diff(set, h2),
                  !.nvram[2] = mode]

\* write_time_register leaving offset alone in the weekday arm
write_time_register_wday_only(s, data, h1, h2) ==
    LET now == qemu_get_timedate(h1, s.offset)
        set == CASE s.ptr = 0 -> [now EXCEPT !.tm_sec = from_bcd(BitAnd(data, 127))]
                 [] s.ptr = 1 -> [now EXCEPT !.tm_min = from_bcd(BitAnd(data, 127))]
                 [] s.ptr = 2 -> [now EXCEPT !.tm_hour = hours_of(data)]
                 [] s.ptr = 4 -> [now EXCEPT !.tm_mday = from_bcd(BitAnd(data, 63))]
                 [] s.ptr = 5 -> [now EXCEPT !.tm_mon = from_bcd(BitAnd(data, 31)) - 1]
                 [] s.ptr = 6 -> [now EXCEPT !.tm_year = from_bcd(data) + 100]
                 [] OTHER -> now
    IN  IF s.ptr = 3
        THEN [s EXCEPT !.wday_offset = wday_offset_of(data, now)]
        ELSE [s EXCEPT !.offset = qemu_timedate_diff(set, h2)]

\* h1: the host clock at qemu_get_timedate, h2: at qemu_timedate_diff
write_time_register(s, data, h1, h2) ==
    LET now == qemu_get_timedate(h1, s.offset)
        set == CASE s.ptr = 0 -> [now EXCEPT !.tm_sec = from_bcd(BitAnd(data, 127))]
                 [] s.ptr = 1 -> [now EXCEPT !.tm_min = from_bcd(BitAnd(data, 127))]
                 [] s.ptr = 2 -> [now EXCEPT !.tm_hour = hours_of(data)]
                 [] s.ptr = 4 -> [now EXCEPT !.tm_mday = from_bcd(BitAnd(data, 63))]
                 [] s.ptr = 5 -> [now EXCEPT !.tm_mon = from_bcd(BitAnd(data, 31)) - 1]
                 [] s.ptr = 6 -> [now EXCEPT !.tm_year = from_bcd(data) + 100]
                 [] OTHER -> now
        wdo == IF s.ptr = 3 THEN wday_offset_of(data, now) ELSE s.wday_offset
    IN  [s EXCEPT !.wday_offset = wdo, !.offset = qemu_timedate_diff(set, h2)]

\* write_control_register without the 0xB3 mask
write_control_register_unmasked(s, data) ==
    LET d2 == BitOr(BitAnd(data, BitNot(CTRL_OSF)),
                    BitAnd(BitAnd(data, s.nvram[s.ptr]), CTRL_OSF))
    IN  [s EXCEPT !.nvram[s.ptr] = d2]

write_control_register(s, data) ==
    LET d1 == BitAnd(data, CTRL_MASK)
        d2 == BitOr(BitAnd(d1, BitNot(CTRL_OSF)),
                    BitAnd(BitAnd(d1, s.nvram[s.ptr]), CTRL_OSF))
    IN  [s EXCEPT !.nvram[s.ptr] = d2]

\* write_nvram that stores nothing
write_nvram_dropped(s, data) == s

write_nvram(s, data) == [s EXCEPT !.nvram[s.ptr] = data]

(***************************************************************************)
(* The bus and the host, as the device sees them.                          *)
(***************************************************************************)
\* I2CEvent: the two the handler names, and FINISH for its `_` arm
Events == {"START_RECV", "START_SEND", "FINISH"}

\* bytes the master sends: the register addresses 0..7 and 9, and 63 as 0x7F
\* and 0xFF (past the 6 address bits); the weekdays 1..7; the control bytes
\* 0x00, 0x20 and 0xFF; the data byte 0x7F
Bytes == (0..7) \cup {9, 32, 127, 255}

\* seconds the host clock has advanced since the first handler call
Elapsed ==
    IF hist = << >> THEN 0
    ELSE LET e == TimeSub(host, hist[1].at) IN e.d * SecsPerDay + e.s

\* the record of a handler call: its argument, the pointer, the addressing
\* flag and the byte under the pointer as it found them, the host clock,
\* whether it panicked, and what it returned if it did not
Call(op, arg, ret, panic) ==
    [op |-> op, arg |-> arg, ptr |-> inner.ptr, addr |-> inner.addr_byte,
     old |-> inner.nvram[inner.ptr], at |-> host, panic |-> panic,
     ret |-> IF panic THEN "PANIC" ELSE ret]

Init ==
    /\ inner = Default
    /\ host = HostStart
    /\ hist = << >>
    /\ borrow = 0
    /\ build = "unobserved"

(***************************************************************************)
(* DS1338State: the handlers.                                              *)
(***************************************************************************)
recv_ret(s) == get_reg(s)

\* the borrow count recv leaves: `inner` is borrowed at line 204 and goes
\* out of scope at the end of the function
recv_borrow(b) == drop_guard(borrow_mut(b))

recv ==
    /\ ~Aborted
    /\ \E checked \in {inc_regptr(inner, host, TRUE)} :
       \E o \in Outcomes(checked, inc_regptr(inner, host, FALSE)) :
           /\ inner' = o.st
           /\ hist' = Append(hist, Call("recv", 0, recv_ret(inner), o.panic))
           /\ borrow' \in (IF o.panic THEN panic_borrow(borrow)
                            ELSE {recv_borrow(borrow)})
           /\ build' = Shown(checked, o)
    /\ UNCHANGED host

\* send without the early return of the addressing branch
send_inner_fallthrough(s, data, h1, h2, checks) ==
    LET t == IF s.addr_byte
             THEN [set_ptr(s, data) EXCEPT !.addr_byte = FALSE]
             ELSE s
    IN  inc_regptr(IF t.ptr < 7 THEN write_time_register(t, data, h1, h2)
                   ELSE IF t.ptr = 7 THEN write_control_register(t, data)
                   ELSE write_nvram(t, data),
                   h2, checks)

\* send storing a time register's byte in nvram as well
send_inner_storing(s, data, h1, h2, checks) ==
    IF s.addr_byte
    THEN returned([set_ptr(s, data) EXCEPT !.addr_byte = FALSE])
    ELSE inc_regptr(IF s.ptr < 7
                    THEN write_nvram(write_time_register(s, data, h1, h2), data)
                    ELSE IF s.ptr = 7 THEN write_control_register(s, data)
                    ELSE write_nvram(s, data),
                    h2, checks)

\* the state send(data) leaves; the host clock shows h1 when the handler reads
\* the time and h2 when it takes the difference
send_inner(s, data, h1, h2, checks) ==
    IF s.addr_byte
    THEN returned([set_ptr(s, data) EXCEPT !.addr_byte = FALSE])
    ELSE inc_regptr(IF s.ptr < 7 THEN write_time_register(s, data, h1, h2)
                    ELSE IF s.ptr = 7 THEN write_control_register(s, data)
                    ELSE write_nvram(s, data),
                    h2, checks)

send_ret(s, data) == IF s.addr_byte THEN "ACK" ELSE "ACK"

\* send keeping its borrow alive past the early return
send_borrow_leaked(s, b) ==
    IF s.addr_byte THEN borrow_mut(b) ELSE drop_guard(borrow_mut(b))

\* the borrow count send leaves: `inner` is borrowed at line 211 and goes out
\* of scope at the early return of line 216 or at the end of the function
send_borrow(s, b) ==
    IF s.addr_byte THEN drop_guard(borrow_mut(b)) ELSE drop_guard(borrow_mut(b))

\* dt: seconds the host clock advances while write_time_register runs
send(data, dt) ==
    /\ Elapsed + dt <= MaxTicks
    /\ dt > 0 => (~inner.addr_byte /\ inner.ptr < 7)
    /\ ~Aborted
    /\ LET h2 == TimeAdd(host, [d |-> 0, s |-> dt])
       IN  \E checked \in {send_inner(inner, data, host, h2, TRUE)} :
           \E o \in Outcomes(checked,
                              send_inner(inner, data, host, h2, FALSE)) :
               /\ inner' = o.st
               /\ host' = h2
               /\ hist' = Append(hist, Call("send", data,
                                            send_ret(inner, data), o.panic))
               /\ borrow' \in (IF o.panic THEN panic_borrow(borrow)
                                ELSE {send_borrow(inner, borrow)})
               /\ build' = Shown(checked, o)

\* event leaving the addressing phase on START_RECV
event_inner_recv_clears(s, e, h, checks) ==
    CASE e = "START_RECV" ->
             [capture_current_time(s, h, checks) EXCEPT !.st.addr_byte = FALSE]
      [] e = "START_SEND" -> returned([s EXCEPT !.addr_byte = TRUE])
      [] OTHER -> returned(s)

event_inner(s, e, h, checks) ==
    CASE e = "START_RECV" -> capture_current_time(s, h, checks)
      [] e = "START_SEND" -> returned([s EXCEPT !.addr_byte = TRUE])
      [] OTHER -> returned(s)

event_borrow(b) == drop_guard(borrow_mut(b))

event(e) ==
    /\ ~Aborted
    /\ \E checked \in {event_inner(inner, e, host, TRUE)} :
       \E o \in Outcomes(checked, event_inner(inner, e, host, FALSE)) :
           /\ inner' = o.st
           /\ hist' = Append(hist, Call("event", e, "START_RECV", o.panic))
           /\ borrow' \in (IF o.panic THEN panic_borrow(borrow)
                            ELSE {event_borrow(borrow)})
           /\ build' = Shown(checked, o)
    /\ UNCHANGED host

\* reset_hold without nvram.fill(0)
reset_state_keeps_nvram(s) ==
    [s EXCEPT !.offset = TimeZero, !.wday_offset = 0, !.ptr = 0,
              !.addr_byte = FALSE]

reset_state(s) ==
    [s EXCEPT !.offset = TimeZero, !.wday_offset = 0, !.ptr = 0,
              !.addr_byte = FALSE,
              !.nvram = [a \in 0..(NVRAM_SIZE - 1) |-> 0]]

reset_borrow(b) == drop_guard(borrow_mut(b))

reset_hold ==
    /\ ~Aborted
    /\ inner' = reset_state(inner)
    /\ hist' = Append(hist, Call("reset", 0, 0, FALSE))
    /\ borrow' = reset_borrow(borrow)
    /\ UNCHANGED <<host, build>>

\* fewer than n handler calls so far
Room(n) == Len(hist) < n

(***************************************************************************)
(* The device on a bus whose master sends any of Bytes at any time.        *)
(***************************************************************************)
Next ==
    \/ Room(MaxSteps) /\ recv
    \/ Room(MaxSteps) /\ \E data \in Bytes, dt \in 0..1 : send(data, dt)
    \/ Room(MaxSteps) /\ \E e \in Events : event(e)
    \/ Room(MaxSteps) /\ reset_hold

Spec == Init /\ [][Next]_vars

(***************************************************************************)
(* Masters that keep to a few registers, followed for MaxDeep calls.       *)
(***************************************************************************)
\* addresses 9 and 63 (sent as 0x7F), data 0x7F
TripBytes == IF inner.addr_byte THEN {9, 127} ELSE {127}

NextTrip ==
    \/ Room(MaxDeep) /\ recv
    \/ Room(MaxDeep) /\ \E data \in TripBytes : send(data, 0)
    \/ Room(MaxDeep) /\ \E e \in {"START_RECV", "START_SEND"} : event(e)
    \/ Room(MaxDeep) /\ reset_hold

SpecTrip == Init /\ [][NextTrip]_vars

\* the control register, written with 0xFF and 0x00
OsfBytes == IF inner.addr_byte THEN {7} ELSE {0, 255}

NextOsf ==
    \/ Room(MaxDeep) /\ recv
    \/ Room(MaxDeep) /\ \E data \in OsfBytes : send(data, 0)
    \/ Room(MaxDeep) /\ event("START_SEND")
    \/ Room(MaxDeep) /\ reset_hold

SpecOsf == Init /\ [][NextOsf]_vars

\* the weekday register, written with the weekdays 1..7, the device created
\* on each of the seven days from HostStart on
WdayBytes ==
    IF inner.addr_byte THEN {3} ELSE IF inner.ptr = 3 THEN 1..7 ELSE {}

InitWday ==
    /\ inner = Default
    /\ host \in {TimeAdd(HostStart, [d |-> k, s |-> 0]) : k \in 0..6}
    /\ hist = << >>
    /\ borrow = 0
    /\ build = "unobserved"

NextWday ==
    \/ Room(MaxDeep) /\ recv
    \/ Room(MaxDeep) /\ \E data \in WdayBytes : send(data, 0)
    \/ Room(MaxDeep) /\ \E e \in {"START_RECV", "START_SEND"} : event(e)

SpecWday == InitWday /\ [][NextWday]_vars

(***************************************************************************)
(* write_control_register on every control byte the device stores and     *)
(* every incoming byte: the pointer at 7 outside the addressing phase, one *)
(* byte sent.  From reset a write at pointer 7 stores the incoming byte's  *)
(* bits 0, 1, 4 and 7 and nothing else (bit 5 is data & stored & 0x20, and *)
(* stored starts at 0), so these 16 bytes are the ones the register holds; *)
(* START_SEND, 0x07, c, START_SEND, 0x07 leaves c there and the pointer at *)
(* 7.                                                                      *)
(***************************************************************************)
ControlBytes ==
    {c \in Byte : BitAnd(c, BitAnd(CTRL_MASK, BitNot(CTRL_OSF))) = c}

InitCtrl ==
    /\ inner \in {[Default EXCEPT !.ptr = 7, !.nvram[7] = c] :
                      c \in ControlBytes}
    /\ host = HostStart
    /\ hist = << >>
    /\ borrow = 0
    /\ build = "unobserved"

NextCtrl ==
    /\ hist = << >>
    /\ \E data \in Byte : send(data, 0)

SpecCtrl == InitCtrl /\ [][NextCtrl]_vars

(***************************************************************************)
(* A read burst that goes round the register file: the pointer set to any  *)
(* register, then byte requests one second apart.                          *)
(***************************************************************************)
InitBurst ==
    /\ inner \in {[Default EXCEPT !.ptr = p] : p \in 0..(NVRAM_SIZE - 1)}
    /\ host = HostStart
    /\ hist = << >>
    /\ borrow = 0
    /\ build = "unobserved"

\* the host clock has advanced since the last call
Ticked == host # (IF hist = << >> THEN HostStart ELSE hist[Len(hist)].at)

\* the host clock advances by one second between two calls
host_tick ==
    /\ ~Ticked
    /\ host' = TimeAdd(host, [d |-> 0, s |-> 1])
    /\ UNCHANGED <<inner, hist, borrow, build>>

NextBurst ==
    \/ Room(MaxRounds * NVRAM_SIZE) /\ host_tick
    \/ Room(MaxRounds * NVRAM_SIZE) /\ Ticked /\ recv

SpecBurst == InitBurst /\ [][NextBurst]_vars

(***************************************************************************)
(* A master that sets the clock: it latches the time, addresses seconds,   *)
(* minutes, day, month or year and writes the byte stored there back, or   *)
(* 0x00 or 0xFF.  The device is created at the end of a month, on a leap   *)
(* day or at the start of a year.                                          *)
(***************************************************************************)
\* 2026-10-31 23:59:59, 2028-02-29 12:34:56, 2030-01-01 00:00:00
HostTimes ==
    {HostStart, [d |-> 10286, s |-> 45296], [d |-> 10958, s |-> 0]}

ClockRegs == {0, 1, 4, 5, 6}

ClockBytes ==
    IF inner.addr_byte THEN ClockRegs
    ELSE IF inner.ptr \in ClockRegs THEN {inner.nvram[inner.ptr], 0, 255}
    ELSE {}

InitClock ==
    /\ inner = Default
    /\ host \in HostTimes
    /\ hist = << >>
    /\ borrow = 0
    /\ build = "unobserved"

NextClock ==
    \/ Room(MaxClock) /\ \E data \in ClockBytes : send(data, 0)
    \/ Room(MaxClock) /\ ~inner.addr_byte
           /\ \E e \in {"START_RECV", "START_SEND"} : event(e)

SpecClock == InitClock /\ [][NextClock]_vars

(***************************************************************************)
(* The hours register in 12-hour mode: bit 6 of storage[2] set (nvram is a *)
(* public field and is loaded whole from a snapshot), the device created   *)
(* in each of the 24 hours of a day; the master latches the time and       *)
(* writes the hours byte it finds back.                                    *)
(***************************************************************************)
HourTimes == {[d |-> 9800, s |-> 3600 * h + 1799] : h \in 0..23}

InitHour ==
    /\ inner = [Default EXCEPT !.nvram[2] = HOURS_12, !.ptr = 2]
    /\ host \in HourTimes
    /\ hist = << >>
    /\ borrow = 0
    /\ build = "unobserved"

HourBytes ==
    IF inner.addr_byte THEN {2}
    ELSE IF /\ inner.ptr = 2
            /\ \E i \in 1..Len(hist) :
                   hist[i].op = "event" /\ hist[i].arg = "START_RECV"
         THEN {inner.nvram[2]}
    ELSE {}

NextHour ==
    \/ Room(MaxDeep) /\ \E data \in HourBytes : send(data, 0)
    \/ Room(MaxDeep) /\ ~inner.addr_byte
           /\ \E e \in {"START_RECV", "START_SEND"} : event(e)

SpecHour == InitHour /\ [][NextHour]_vars

(***************************************************************************)
(* The device in the middle of its life: the clock set a year and an hour  *)
(* ahead or not at all, the weekday shifted by three or not at all, the    *)
(* control register at 0x93, 0x7F stored at 9, the pointer at a time        *)
(* register, at 9 or at 63, in or out of the addressing phase.  Each of    *)
(* these states is reached from reset by writes that do not wrap the       *)
(* pointer, so no time has been captured yet.                              *)
(***************************************************************************)
FrameNvram ==
    [a \in 0..(NVRAM_SIZE - 1) |->
        IF a = 7 THEN 147 ELSE IF a = 9 THEN 127 ELSE 0]

FrameStates ==
    {[offset |-> o, wday_offset |-> w, nvram |-> FrameNvram, ptr |-> p,
      addr_byte |-> b] :
        o \in {TimeZero, [d |-> 365, s |-> 3600]}, w \in {0, 3},
        p \in {0, 2, 3, 6, 9, 63}, b \in BOOLEAN}

FrameBytes == IF inner.addr_byte THEN {3, 63} ELSE {5, 127}

InitFrame ==
    /\ inner \in FrameStates
    /\ host = HostStart
    /\ hist = << >>
    /\ borrow = 0
    /\ build = "unobserved"

NextFrame ==
    \/ Room(MaxSteps) /\ recv
    \/ Room(MaxSteps) /\ \E data \in FrameBytes, dt \in 0..1 : send(data, dt)
    \/ Room(MaxSteps) /\ \E e \in Events : event(e)
    \/ Room(MaxSteps) /\ reset_hold

SpecFrame == InitFrame /\ [][NextFrame]_vars

(***************************************************************************)
(* A master that sets the hours register to 1 PM in 12-hour form (0x61)    *)
(* and reads it back.                                                      *)
(***************************************************************************)
ModeBytes == IF inner.addr_byte THEN {2} ELSE {97}

NextMode ==
    \/ Room(MaxDeep) /\ recv
    \/ Room(MaxDeep) /\ \E data \in ModeBytes : send(data, 0)
    \/ Room(MaxDeep) /\ \E e \in {"START_RECV", "START_SEND"} : event(e)
    \/ Room(MaxDeep) /\ reset_hold

SpecMode == Init /\ [][NextMode]_vars

(***************************************************************************)
(* A master that writes 0xFF to the year register, which sets the clock to *)
(* 2165, past the years 2000..2159 whose year byte to_bcd can encode, and  *)
(* then reads or writes the last NVRAM byte or latches the time.           *)
(***************************************************************************)
YearBytes ==
    IF inner.addr_byte THEN {6, 63}
    ELSE IF inner.ptr = 6 THEN {255}
    ELSE IF inner.ptr = 63 THEN {127}
    ELSE {}

NextYear ==
    \/ Room(MaxYear) /\ recv
    \/ Room(MaxYear) /\ \E data \in YearBytes : send(data, 0)
    \/ Room(MaxYear) /\ \E e \in {"START_RECV", "START_SEND"} : event(e)

SpecYear == Init /\ [][NextYear]_vars

(***************************************************************************)
(* Persistence: the VMState description of DS1338Inner.  A snapshot is a   *)
(* version number and the field values in the order they were written,     *)
(* each with its size on the wire; the loader reads, in the order of the   *)
(* description, the fields whose version is not above the snapshot's, and  *)
(* fails when the snapshot's bytes do not line up with them.               *)
(***************************************************************************)
\* version_id(2), minimum_version_id(1)
VMSTATE_VERSION == 2
VMSTATE_MIN_VERSION == 1

\* vmstate_fields!: vmstate_of! without a version gives the field version 0;
\* size: the field's bytes on the wire (i64, u8, [u8; 64], i32, bool)
VmFields ==
    << [name |-> "offset",      since |-> 0, size |-> 8],
       [name |-> "wday_offset", since |-> 0, size |-> 1],
       [name |-> "nvram",       since |-> 0, size |-> 64],
       [name |-> "ptr",         since |-> 0, size |-> 4],
       [name |-> "addr_byte",   since |-> 0, size |-> 1] >>

\* the fields of the description that a snapshot of version v holds
FieldsOf(v) == SelectSeq(VmFields, LAMBDA f : f.since <= v)

\* the wire form of the listed fields of the register file s
FieldValues(s, fs) ==
    [i \in 1..Len(fs) |-> [size |-> fs[i].size, val |-> s[fs[i].name]]]

\* what saving the register file s writes
vmstate_save(s) ==
    [version |-> VMSTATE_VERSION,
     data |-> FieldValues(s, FieldsOf(VMSTATE_VERSION))]

\* a version 1 snapshot that holds every field of the description
snapshot_v1_full(s) ==
    [version |-> VMSTATE_MIN_VERSION,
     data |-> FieldValues(s, FieldsOf(VMSTATE_MIN_VERSION))]

\* a version 1 snapshot with the smaller field set, without wday_offset
LegacyFields == SelectSeq(VmFields, LAMBDA f : f.name # "wday_offset")

snapshot_v1_legacy(s) ==
    [version |-> VMSTATE_MIN_VERSION, data |-> FieldValues(s, LegacyFields)]

\* a snapshot of a version this description does not know
snapshot_v3(s) ==
    [version |-> VMSTATE_VERSION + 1,
     data |-> FieldValues(s, FieldsOf(VMSTATE_VERSION))]

\* the snapshot's bytes line up with the fields fs
LinesUp(snap, fs) ==
    /\ Len(snap.data) = Len(fs)
    /\ \A i \in 1..Len(fs) : snap.data[i].size = fs[i].size

\* loading snap into the register file s: the result and the register file
vmstate_load(s, snap) ==
    IF snap.version < VMSTATE_MIN_VERSION \/ snap.version > VMSTATE_VERSION
    THEN [ok |-> FALSE, inner |-> s]
    ELSE LET fs == FieldsOf(snap.version)
         IN  IF LinesUp(snap, fs)
             THEN [ok |-> TRUE,
                   inner |-> [f \in DOMAIN s |->
                       IF \E i \in 1..Len(fs) : fs[i].name = f
                       THEN snap.data[CHOOSE i \in 1..Len(fs) :
                                        fs[i].name = f].val
                       ELSE s[f]]]
             ELSE [ok |-> FALSE, inner |-> s]

\* the snapshots taken of the devices of FrameStates
Snapshots ==
    UNION {{vmstate_save(st), snapshot_v1_full(st), snapshot_v1_legacy(st),
            snapshot_v3(st)} : st \in FrameStates}

\* a snapshot is loaded into a freshly created device
load(snap) ==
    /\ hist = << >>
    /\ inner' = vmstate_load(inner, snap).inner
    /\ hist' = Append(hist, Call("load", snap,
                                 IF vmstate_load(inner, snap).ok
                                 THEN "OK" ELSE "FAILED", FALSE))
    /\ UNCHANGED <<host, borrow, build>>

NextLoad == \E snap \in Snapshots : load(snap)

SpecLoad == Init /\ [][NextLoad]_vars

(***************************************************************************)
(* What the call records say.                                              *)
(***************************************************************************)
Last == hist[Len(hist)]

\* a master byte taken as the register pointer / as data
IsAddr(c) == c.op = "send" /\ c.addr
IsData(c) == c.op = "send" /\ ~c.addr

\* a call that reads or writes the register under the pointer
IsAccess(c) == c.op = "recv" \/ IsData(c)

IsEvent(c, e) == c.op = "event" /\ c.arg = e

\* a call that runs capture_current_time
IsCapture(c) == IsEvent(c, "START_RECV") \/ (IsAccess(c) /\ c.ptr = 63)

\* a data write at address a
IsWriteAt(c, a) == IsData(c) /\ c.ptr = a

\* none of the calls i+1 .. k-1 is a reset or a data write at address a
Untouched(a, i, k) ==
    \A j \in (i + 1)..(k - 1) : hist[j].op # "reset" /\ ~IsWriteAt(hist[j], a)

\* the master wrote a byte with bit 5 set at pointer 7 before call k, and no
\* reset has come since
WrittenSet(k) ==
    \E i \in 1..(k - 1) :
        /\ IsWriteAt(hist[i], 7)
        /\ Bit(hist[i].arg, 5) = 1
        /\ \A j \in (i + 1)..(k - 1) : hist[j].op # "reset"

C1_OsfKeptOnlyIfWrittenSet ==
    (hist # << >> /\ IsWriteAt(Last, 7)) =>
        Bit(inner.nvram[7], 5) = Bit(Last.old, 5) * Bit(Last.arg, 5)

\* the call before call k that wrote 0xFF at pointer 7 onto a control byte
\* with bit 5 clear, with no reset and no write at pointer 7 since
FollowsFF(k) ==
    \E i \in 1..(k - 1) :
        /\ IsWriteAt(hist[i], 7)
        /\ hist[i].arg = 255
        /\ Bit(hist[i].old, 5) = 0
        /\ Untouched(7, i, k)

\* what the two writes of C2 store: when the stored oscillator-fail bit is
\* 0, a master data write of 0xFF at pointer 7 stores 0x93, the 0xB3 pattern
\* with bit 5 still clear; a following write of 0x00 at pointer 7 stores
\* 0x00.
C2_WriteFFThen00 ==
    (hist # << >> /\ IsWriteAt(Last, 7)) =>
        /\ (Last.arg = 255 /\ Bit(Last.old, 5) = 0) => inner.nvram[7] = 147
        /\ (Last.arg = 0 /\ FollowsFF(Len(hist))) => inner.nvram[7] = 0

\* C2 as stated: when the stored oscillator-fail bit is 0, a write of 0xFF at
\* pointer 7 yields a stored byte with bit 5 set, and a following write of
\* 0x00 leaves bit 5 set.
C2_WriteFFSetsOsf ==
    (hist # << >> /\ IsWriteAt(Last, 7)) =>
        /\ (Last.arg = 255 /\ Bit(Last.old, 5) = 0) =>
               Bit(inner.nvram[7], 5) = 1
        /\ (Last.arg = 0 /\ FollowsFF(Len(hist))) =>
               Bit(inner.nvram[7], 5) = 1

\* C3: in every state reached from the initial state by bus events and
\* resets the register pointer is in 0..63; a byte request and a data write
\* advance it by one modulo 64, and the pointer-setting byte b sets it to
\* b mod 64.
C3_PointerInRange ==
    /\ inner.ptr \in 0..63
    /\ hist # << >> =>
          /\ IsAccess(Last) => inner.ptr = (Last.ptr + 1) % 64
          /\ IsAddr(Last) => inner.ptr = Last.arg % 64

\* an access at pointer 63 wrapped the pointer to 0, the pointer having been
\* set by a byte past the 6 address bits
C3_Witness ==
    /\ Len(hist) >= 2
    /\ IsAccess(Last)
    /\ Last.ptr = 63
    /\ inner.ptr = 0
    /\ IsAddr(hist[Len(hist) - 1])
    /\ hist[Len(hist) - 1].arg > 63

\* a START_SEND event has been delivered and no byte sent and no reset since
StartPending ==
    \E j \in 1..Len(hist) :
        /\ IsEvent(hist[j], "START_SEND")
        /\ \A k \in (j + 1)..Len(hist) : hist[k].op \notin {"send", "reset"}

\* C4: the first byte the master writes after a start-for-send event is the
\* new pointer, not data: the pointer becomes byte mod 64 and is not
\* advanced, addr_byte is cleared, ACK is returned, and the 64 storage bytes,
\* offset and wday_offset are unchanged.
C4_FirstByteIsPointer ==
    [][(hist' # hist /\ hist'[Len(hist')].op = "send" /\ StartPending) =>
          /\ inner'.ptr = hist'[Len(hist')].arg % 64
          /\ inner'.addr_byte = FALSE
          /\ hist'[Len(hist')].ret = "ACK"
          /\ inner'.nvram = inner.nvram
          /\ inner'.offset = inner.offset
          /\ inner'.wday_offset = inner.wday_offset]_vars

\* after a capture filled the time registers, a START_SEND and then a byte
\* past the 6 address bits: the pointer is the byte mod 64 and the captured
\* minutes are still stored
C4_Witness ==
    /\ Len(hist) >= 2
    /\ Last.op = "send"
    /\ IsEvent(hist[Len(hist) - 1], "START_SEND")
    /\ Last.arg > 63
    /\ inner.ptr = Last.arg % 64
    /\ inner.nvram[1] # 0

\* C5: a data byte d written at an address a in 8..63 is stored at a, and a
\* later byte request at pointer a returns d, provided no data write at a
\* and no reset happened in between.
C5_NvramRoundTrip ==
    /\ (hist # << >> /\ IsData(Last) /\ Last.ptr >= 8) =>
           inner.nvram[Last.ptr] = Last.arg
    /\ \A i \in 1..Len(hist) :
           (IsData(hist[i]) /\ hist[i].ptr >= 8) =>
               \A k \in (i + 1)..Len(hist) :
                   (/\ hist[k].op = "recv"
                    /\ hist[k].ptr = hist[i].ptr
                    /\ Untouched(hist[i].ptr, i, k)) =>
                       hist[k].ret = hist[i].arg

\* START_SEND, 0x09, 0x7F, ..., START_SEND, 0x09, START_RECV, byte request
\* returning 0x7F
C5_Witness ==
    /\ Len(hist) >= 7
    /\ Last.op = "recv" /\ Last.ptr = 9 /\ Last.ret = 127
    /\ IsEvent(hist[Len(hist) - 1], "START_RECV")
    /\ IsAddr(hist[Len(hist) - 2]) /\ hist[Len(hist) - 2].arg = 9
    /\ IsEvent(hist[Len(hist) - 3], "START_SEND")
    /\ \E i \in 3..(Len(hist) - 4) :
           /\ IsWriteAt(hist[i], 9) /\ hist[i].arg = 127
           /\ IsAddr(hist[i - 1]) /\ hist[i - 1].arg = 9
           /\ IsEvent(hist[i - 2], "START_SEND")

\* C6: a reset in any reachable state yields the initial state: offset 0,
\* wday_offset 0, pointer 0, addr_byte false and all 64 storage bytes zero.
C6_ResetIsInitial ==
    (hist # << >> /\ Last.op = "reset") =>
        /\ inner.offset = TimeZero
        /\ inner.wday_offset = 0
        /\ inner.ptr = 0
        /\ inner.addr_byte = FALSE
        /\ \A a \in 0..63 : inner.nvram[a] = 0

\* a reset delivered in the addressing phase with the pointer at 9 and 0x7F
\* stored there
C6_Witness ==
    /\ hist # << >>
    /\ Last.op = "reset"
    /\ Last.ptr = 9
    /\ Last.old = 127
    /\ Last.addr
    /\ inner.ptr = 0
    /\ inner.nvram[9] = 0

\* the weekday the time source reported to a call
WallWeekday(c) == gmtime(c.at).tm_wday

\* call i wrote the weekday u in 1..7 at pointer 3, call j > i captured the
\* time on the same wall-clock weekday, and in between there was no reset
\* and no write to a time register
WeekdaySetThenCaptured(i, j) ==
    /\ IsWriteAt(hist[i], 3)
    /\ hist[i].arg \in 1..7
    /\ IsCapture(hist[j])
    /\ WallWeekday(hist[j]) = WallWeekday(hist[i])
    /\ \A m \in (i + 1)..(j - 1) :
           hist[m].op # "reset" /\ ~(IsData(hist[m]) /\ hist[m].ptr < 7)

\* C7: after the master wrote the weekday u in 1..7 at pointer 3 on any
\* wall-clock weekday, a capture on the same weekday stores u at address 3,
\* and a read of address 3 returns u.
C7_WeekdayRoundTrip ==
    \A i \in 1..Len(hist) : \A j \in (i + 1)..Len(hist) :
        WeekdaySetThenCaptured(i, j) =>
            /\ j = Len(hist) => inner.nvram[3] = hist[i].arg
            /\ \A k \in (j + 1)..Len(hist) :
                   (/\ hist[k].op = "recv"
                    /\ hist[k].ptr = 3
                    /\ \A m \in (j + 1)..(k - 1) :
                           ~IsCapture(hist[m]) /\ hist[m].op # "reset") =>
                       hist[k].ret = hist[i].arg

\* START_SEND, 0x03, u, START_RECV, START_SEND, 0x03, byte request returning
\* u, with u not the weekday the device showed before
C7_Witness ==
    /\ Len(hist) = 7
    /\ IsEvent(hist[1], "START_SEND")
    /\ IsAddr(hist[2]) /\ hist[2].arg = 3
    /\ IsWriteAt(hist[3], 3) /\ hist[3].arg = 5
    /\ IsEvent(hist[4], "START_RECV")
    /\ IsEvent(hist[5], "START_SEND")
    /\ IsAddr(hist[6]) /\ hist[6].arg = 3
    /\ hist[7].op = "recv" /\ hist[7].ptr = 3 /\ hist[7].ret = 5
    /\ WallWeekday(hist[3]) = 2
    /\ inner.wday_offset # 0

\* the year the device's clock shows, as capture_current_time would see it
ClockYear == qemu_get_timedate(host, inner.offset).tm_year + 1900

\* C8 as stated: a byte request returns the byte stored at the pointer it
\* found and then advances the pointer by one modulo 64; at pointer 63 it
\* returns storage[63] as it was before the capture that the wrap to 0
\* causes.
C8_ReadThenAdvance ==
    (hist # << >> /\ Last.op = "recv") =>
        /\ ~Last.panic
        /\ Last.ret = Last.old
        /\ inner.ptr = (Last.ptr + 1) % 64

\* what a byte request does in either build: the pointer is advanced by one
\* modulo 64, and the byte returned, when the capture of the wrap lets the
\* call return, is the one that was stored at the pointer
C8_ReadThenAdvanceIfReturned ==
    (hist # << >> /\ Last.op = "recv") =>
        /\ ~Last.panic => Last.ret = Last.old
        /\ Last.panic => (Last.ptr = 63 /\ ClockYear \notin 2000..2159)
        /\ inner.ptr = (Last.ptr + 1) % 64

\* a well-formed DS1338Inner
InnerOK(s) ==
    /\ s.ptr \in 0..(NVRAM_SIZE - 1)
    /\ s.addr_byte \in BOOLEAN
    /\ s.wday_offset \in Byte
    /\ s.offset.s \in 0..(SecsPerDay - 1)
    /\ \A a \in 0..(NVRAM_SIZE - 1) : s.nvram[a] \in Byte

\* C9 as stated: every master-written byte is acknowledged: send returns
\* ACK for the pointer-setting byte and for the data bytes for time, control
\* and NVRAM addresses alike, in every reachable state and for every byte
\* 0..255; every event is accepted: the handler returns; and every handler
\* call, in whatever state it is made, leaves a well-formed register file.
C9_AlwaysAck ==
    /\ \A i \in 1..Len(hist) :
           /\ hist[i].op = "send" => (~hist[i].panic /\ hist[i].ret = "ACK")
           /\ hist[i].op = "event" => ~hist[i].panic
    /\ \A data \in Byte : send_ret(inner, data) = "ACK"
    /\ InnerOK(inner)

\* what send and event do in either build: a call that returns, returns ACK
\* (send) or START_RECV (event); a call panics only in the capture of a
\* clock outside 2000..2159, a start-for-receive event or a data write at
\* pointer 63; and the register file stays well-formed
C9_AckIfReturned ==
    /\ \A i \in 1..Len(hist) :
           /\ (hist[i].op = "send" /\ ~hist[i].panic) => hist[i].ret = "ACK"
           /\ (hist[i].op = "event" /\ ~hist[i].panic) =>
                  hist[i].ret = "START_RECV"
           /\ hist[i].panic => (i = Len(hist) /\ IsCapture(hist[i])
                                   /\ ClockYear \notin 2000..2159)
    /\ InnerOK(inner)

\* C10: after a master data write at pointer 7 the stored control byte has
\* all bits outside 0xB3 equal to 0, and its bits 0, 1, 4 and 7 equal those
\* of the incoming byte.
C10_ControlMasked ==
    (hist # << >> /\ IsWriteAt(Last, 7)) =>
        /\ \A b \in {2, 3, 6} : Bit(inner.nvram[7], b) = 0
        /\ \A b \in {0, 1, 4, 7} : Bit(inner.nvram[7], b) = Bit(Last.arg, b)

\* 0xFF, with bits 2, 3, 5 and 6 set, written at pointer 7 onto the control
\* byte 0x02: 0x93 is stored
C10_Witness ==
    /\ hist # << >>
    /\ IsWriteAt(Last, 7)
    /\ Last.arg = 255
    /\ Last.old = 2
    /\ inner.nvram[7] = 147

\* a time register differs between two register files
TimeRegsDiffer(m, n) == \E a \in 0..6 : m[a] # n[a]

\* the calls i .. i+63 are byte requests
IsRound(i) == \A j \in i..(i + NVRAM_SIZE - 1) : hist[j].op = "recv"

\* C11: for every starting pointer p in 0..63, 64 consecutive byte requests
\* bring the pointer back to p, and the time is captured in exactly one of
\* them, the one that finds the pointer at 63 and wraps it to 0.
C11_RoundCapturesOnce ==
    /\ [](\A i \in 1..(Len(hist) - NVRAM_SIZE + 1) :
             IsRound(i) =>
                 /\ (IF i + NVRAM_SIZE <= Len(hist)
                     THEN hist[i + NVRAM_SIZE].ptr ELSE inner.ptr) = hist[i].ptr
                 /\ Cardinality({j \in i..(i + NVRAM_SIZE - 1) :
                                    hist[j].ptr = NVRAM_SIZE - 1}) = 1)
    /\ [][(hist' # hist /\ hist'[Len(hist')].op = "recv") =>
            (TimeRegsDiffer(inner.nvram, inner'.nvram) <=>
                 (inner.ptr = NVRAM_SIZE - 1 /\ inner'.ptr = 0))]_vars

\* 64 byte requests from pointer 37: the pointer is 37 again and the time
\* captured at the wrap, 27 seconds into the burst, is in the registers
C11_Witness ==
    /\ Len(hist) = NVRAM_SIZE
    /\ IsRound(1)
    /\ hist[1].ptr = 37
    /\ inner.ptr = 37
    /\ hist[27].ptr = 63
    /\ inner.nvram[0] = to_bcd(26, TRUE).val
    /\ inner.nvram[4] = 1

\* none of the calls i+1 .. k-1 of h is a reset or a data write to a time
\* register
QuietIn(h, i, k) ==
    \A j \in (i + 1)..(k - 1) :
        h[j].op # "reset" /\ ~(IsData(h[j]) /\ h[j].ptr < 7)

Quiet(i, k) == QuietIn(hist, i, k)

\* call i of h wrote the byte stored at seconds, minutes, day, month or year
\* back to its register, the registers holding a capture made since the last
\* reset and the last write to a time register
IsWriteBackIn(h, i) ==
    /\ IsData(h[i])
    /\ h[i].ptr \in {0, 1, 4, 5, 6}
    /\ h[i].arg = h[i].old
    /\ \E c \in 1..(i - 1) : IsCapture(h[c]) /\ QuietIn(h, c, i)

IsWriteBack(i) == IsWriteBackIn(hist, i)

\* the registers hold a capture and its write-back, and nothing has reset
\* the device or written a time register since
WrittenBack ==
    \E i \in 1..Len(hist) : IsWriteBack(i) /\ Quiet(i, Len(hist) + 1)

\* C12 as stated: with no advance of the host clock, after a capture, writing
\* the captured byte of seconds, minutes, day, month or year back to its
\* register leaves an offset with which the next capture stores the same
\* seven time registers.
C12_WriteBackRoundTrip ==
    [][(/\ hist' # hist
        /\ IsEvent(hist'[Len(hist')], "START_RECV")
        /\ host' = host
        /\ WrittenBack) =>
            ~TimeRegsDiffer(inner.nvram, inner'.nvram)]_vars

\* the write-back round trip for a clock in the years 2000..2159, whose year
\* register to_bcd computes without leaving the u8 range: the write-back
\* leaves the offset as it was, and a capture after it, with or without
\* overflow checks, returns and stores the registers already stored
C12_RoundTripInRange ==
    [][(/\ hist' # hist
        /\ IsWriteBackIn(hist', Len(hist'))
        /\ host' = host
        /\ ClockYear \in 2000..2159) =>
            /\ inner'.offset = inner.offset
            /\ ~capture_current_time(inner', host', TRUE).panic
            /\ ~TimeRegsDiffer(inner.nvram,
                   capture_current_time(inner', host', TRUE).st.nvram)]_vars

\* the hour the device's clock shows
ClockHour == qemu_get_timedate(host, inner.offset).tm_hour

\* C13: in 12-hour mode, for every wall-clock hour h in 0..23 the hours byte
\* a capture stores has bit 6 set, a BCD hour in 1..12 (12 for h = 0 and
\* h = 12) and the PM bit (bit 5) set exactly when h >= 12; decoding the byte
\* as write_time_register does gives h again, and writing it at address 2
\* leaves the clock at hour h.
C13_TwelveHourBijection ==
    /\ (hist # << >> /\ IsEvent(Last, "START_RECV")) =>
          LET h == ClockHour
              b == inner.nvram[2]
              v == from_bcd(BitAnd(b, HOURS_PM - 1))
          IN  /\ Bit(b, 6) = 1
              /\ Bit(b, 7) = 0
              /\ v \in 1..12
              /\ v = (IF h % 12 = 0 THEN 12 ELSE h % 12)
              /\ Bit(b, 5) = (IF h >= 12 THEN 1 ELSE 0)
              /\ to_bcd(v, TRUE) = no_panic(BitAnd(b, HOURS_PM - 1))
              /\ hours_of(b) = h
    /\ (hist # << >> /\ IsWriteAt(Last, 2)) =>
          ClockHour = gmtime(Last.at).tm_hour

\* at noon the capture stored 0x72 (12 PM), the master wrote it back at
\* address 2 and the clock still shows hour 12
C13_Witness ==
    /\ Len(hist) >= 2
    /\ IsWriteAt(Last, 2)
    /\ Last.arg = 114
    /\ IsEvent(hist[Len(hist) - 1], "START_RECV")
    /\ ClockHour = 12
    /\ inner.offset = TimeZero

\* the registers a .. 63 are the same in two register files
SameFrom(a, m, n) == \A x \in a..(NVRAM_SIZE - 1) : m[x] = n[x]

\* C14: a start-for-receive event changes only storage[0..6]: the control
\* register, storage[8..63], the pointer, addr_byte, offset and wday_offset
\* are as before; the capture that a wrap of the pointer from 63 to 0 runs
\* changes no other register either (a data write at 63 stores its byte at
\* 63 first); and a byte at an address in 8..63 changes only in a data write
\* that finds the pointer at that address, or in a reset.
C14_CaptureFrame ==
    [][hist' # hist =>
        LET c == hist'[Len(hist')]
        IN  /\ IsEvent(c, "START_RECV") =>
                  /\ SameFrom(7, inner.nvram, inner'.nvram)
                  /\ inner'.ptr = inner.ptr
                  /\ inner'.addr_byte = inner.addr_byte
                  /\ inner'.offset = inner.offset
                  /\ inner'.wday_offset = inner.wday_offset
            /\ (IsAccess(c) /\ c.ptr = NVRAM_SIZE - 1) =>
                  /\ \A a \in 7..(NVRAM_SIZE - 1) :
                         inner'.nvram[a] =
                             IF IsWriteAt(c, a) THEN c.arg ELSE inner.nvram[a]
                  /\ inner'.addr_byte = inner.addr_byte
                  /\ inner'.offset = inner.offset
                  /\ inner'.wday_offset = inner.wday_offset
            /\ \A a \in 8..(NVRAM_SIZE - 1) :
                  inner'.nvram[a] # inner.nvram[a] =>
                      (IsWriteAt(c, a) \/ c.op = "reset")]_vars

\* a start-for-receive event on a device with the clock set ahead, the
\* weekday shifted, 0x93 in the control register and 0x7F at 9: the time
\* registers are filled, the rest is as it was
C14_Witness ==
    /\ Len(hist) = 1
    /\ IsEvent(Last, "START_RECV")
    /\ Last.ptr = 9
    /\ inner.offset = [d |-> 365, s |-> 3600]
    /\ inner.wday_offset = 3
    /\ inner.nvram[4] # 0
    /\ inner.nvram[7] = 147
    /\ inner.nvram[9] = 127
    /\ inner.ptr = 9

\* C15 (as amended): a master data write at pointer 3 recomputes wday_offset
\* from the incoming weekday and, as the writes at 0, 1, 2, 4, 5 and 6 do,
\* recomputes offset from the difference query, here for the unmodified
\* breakdown: offset keeps its value when the host clock does not advance
\* during the write, and is reduced by the seconds the host clock advanced
\* between the two queries.
C15_WeekdayWriteRecomputesOffset ==
    [][(hist' # hist /\ IsWriteAt(hist'[Len(hist')], 3)) =>
          /\ inner'.offset = TimeSub(inner.offset, TimeSub(host', host))
          /\ host' = host => inner'.offset = inner.offset
          /\ inner'.wday_offset =
                 (BitAnd(hist'[Len(hist')].arg, 7) - 1
                  - qemu_get_timedate(host, inner.offset).tm_wday + 7) % 7]_vars

\* C15 as stated: a master data write at pointer 3 does not alter offset,
\* also when the host clock ticks during the write.
C15_WeekdayWriteKeepsOffset ==
    [][(hist' # hist /\ IsWriteAt(hist'[Len(hist')], 3)) =>
          inner'.offset = inner.offset]_vars

\* the weekday 5 was written at pointer 3 of a device whose clock was a year
\* and an hour ahead, the host clock ticked during the write, and offset is
\* one second less
C15_Witness ==
    /\ Len(hist) = 1
    /\ IsWriteAt(Last, 3)
    /\ Last.arg = 5
    /\ host = TimeAdd(Last.at, [d |-> 0, s |-> 1])
    /\ inner.offset = [d |-> 365, s |-> 3599]
    /\ inner.ptr = 4

\* C16: addr_byte is true exactly in the states where a start-for-send event
\* has been delivered and no master-written byte and no reset has come since;
\* start-for-receive events, other events and byte requests never change it.
C16_AddressingPhase ==
    /\ inner.addr_byte <=> StartPending
    /\ (hist # << >> /\ (Last.op = "recv" \/ (Last.op = "event"
                                               /\ Last.arg # "START_SEND"))) =>
           inner.addr_byte = Last.addr

\* START_SEND, then START_RECV and a byte request: still in the addressing
\* phase, with the time captured and the pointer advanced
C16_Witness ==
    /\ Len(hist) = 3
    /\ IsEvent(hist[1], "START_SEND")
    /\ IsEvent(hist[2], "START_RECV")
    /\ hist[3].op = "recv"
    /\ inner.addr_byte
    /\ inner.ptr = 1
    /\ inner.nvram[4] # 0

\* C17: every handler call (byte requested, byte sent, bus event, reset)
\* finds the register file free, borrows it once, and has given the borrow
\* back when it returns, on each exit path, the early return of the
\* addressing branch of send included; so with the calls delivered one after
\* the other no call starts while the register file is borrowed and none
\* borrows it twice.
C17_ExclusiveAccess ==
    /\ [](~Aborted => borrow = 0)
    /\ [][hist' # hist =>
            /\ borrow_mut(borrow) = 1
            /\ ~hist'[Len(hist')].panic => borrow' = 0]_vars

\* send has returned through the early return of its addressing branch, and
\* a data byte and a byte request have been handled after it
C17_Witness ==
    /\ Len(hist) = 3
    /\ IsEvent(hist[1], "START_SEND")
    /\ IsAddr(hist[2])
    /\ hist[3].op = "recv"
    /\ borrow = 0

\* the value the snapshot snap holds for the field f
Persisted(snap, fs, f) == snap.data[CHOOSE i \in 1..Len(fs) : fs[i].name = f].val

\* C18 as stated: a version 1 snapshot, whose field set is smaller than
\* version 2's (it lacks one field), is accepted: the fields it holds are
\* restored as persisted and the absent field takes its default; a version 2
\* snapshot restores all five fields.
C18_BothVersionsLoad ==
    (hist # << >> /\ Last.op = "load") =>
        LET snap == Last.arg
        IN  /\ (snap.version = 2 /\ Len(snap.data) = 5) =>
                  /\ Last.ret = "OK"
                  /\ \A f \in DOMAIN inner :
                         inner[f] = Persisted(snap, VmFields, f)
            /\ (snap.version = 1 /\ Len(snap.data) = 4) =>
                  /\ Last.ret = "OK"
                  /\ \A f \in DOMAIN inner \ {"wday_offset"} :
                         inner[f] = Persisted(snap, LegacyFields, f)
                  /\ inner.wday_offset = Default.wday_offset

\* what the description does: a snapshot of version 1 or 2 is read as all
\* five fields; one that holds them is restored whole, one with the smaller
\* field set fails to load and leaves the device as it was, and so does a
\* snapshot of another version
C18_FiveFieldsInBothVersions ==
    (hist # << >> /\ Last.op = "load") =>
        LET snap == Last.arg
        IN  /\ (snap.version \in {1, 2} /\ Len(snap.data) = 5) =>
                  /\ Last.ret = "OK"
                  /\ \A f \in DOMAIN inner :
                         inner[f] = Persisted(snap, VmFields, f)
            /\ (snap.version \notin {1, 2} \/ Len(snap.data) # 5) =>
                  /\ Last.ret = "FAILED"
                  /\ inner = Default

\* C19: in every state reached from the initial state by bus events and
\* resets, bit 6 of storage[2] (the 12-hour bit) is 0: a data write at
\* pointer 2 stores nothing and a capture keeps the mode it finds; so a byte
\* request at pointer 2 returns the hour in 24-hour BCD, also after the
\* master wrote an hours byte with the 12-hour bit set.
C19_AlwaysTwentyFourHour ==
    /\ Bit(inner.nvram[2], 6) = 0
    /\ (hist # << >> /\ IsWriteAt(Last, 2)) => inner.nvram[2] = Last.old
    /\ (hist # << >> /\ Last.op = "recv" /\ Last.ptr = 2) =>
           /\ Bit(Last.ret, 6) = 0
           /\ Bit(Last.ret, 7) = 0
           /\ from_bcd(Last.ret) \in 0..23
           /\ to_bcd(from_bcd(Last.ret), TRUE) = no_panic(Last.ret)

\* START_SEND, 0x02, 0x61 (1 PM in 12-hour form), START_RECV, START_SEND,
\* 0x02, byte request: the hours register reads 0x13
C19_Witness ==
    /\ Len(hist) = 7
    /\ IsWriteAt(hist[3], 2) /\ hist[3].arg = 97
    /\ IsEvent(hist[4], "START_RECV")
    /\ IsAddr(hist[6]) /\ hist[6].arg = 2
    /\ hist[7].op = "recv" /\ hist[7].ptr = 2 /\ hist[7].ret = 19
    /\ inner.nvram[2] = 19

\* C20: a master data write at a pointer in 0..6 leaves all 64 storage bytes
\* as they were: it changes offset or wday_offset and advances the pointer;
\* the time registers storage[0..6] change only in a capture (a
\* start-for-receive event or an access that wraps the pointer from 63 to 0)
\* or a reset, which is where a written time becomes visible.
C20_TimeWriteStoresNothing ==
    [][hist' # hist =>
        LET c == hist'[Len(hist')]
        IN  /\ (IsData(c) /\ c.ptr < 7) =>
                  /\ inner'.nvram = inner.nvram
                  /\ inner'.ptr = inner.ptr + 1
                  /\ inner'.addr_byte = inner.addr_byte
                  /\ c.ptr # 3 => inner'.wday_offset = inner.wday_offset
            /\ TimeRegsDiffer(inner.nvram, inner'.nvram) =>
                  (IsCapture(c) \/ c.op = "reset")]_vars

\* the year 0x05 was written at pointer 6 of a device that had captured no
\* time yet; the start-for-receive event after it stored 0x05 as the year
C20_Witness ==
    /\ Len(hist) = 2
    /\ IsWriteAt(hist[1], 6)
    /\ hist[1].arg = 5
    /\ IsEvent(hist[2], "START_RECV")
    /\ Last.old = 147
    /\ inner.nvram[6] = 5
    /\ inner.nvram[7] = 147

====
